---- MODULE Spec2Model ----
(***************************************************************************)
(* Model of lib/api.js of bitcore-wallet-client: the client API object,    *)
(* its credential set, and one action per public operation.  The          *)
(* coordination server is untrusted: every response is a nondeterministic *)
(* choice.  Keys, signatures and ciphertexts are symbolic: a signature is  *)
(* the pair (message, signing key), a ciphertext the pair (plaintext,      *)
(* key), so that verification and decryption succeed exactly when the      *)
(* right key was used.                                                     *)
(***************************************************************************)
EXTENDS Integers, Sequences, FiniteSets, TLC

(* ------------------------------ bounds -------------------------------- *)
NumSeeds == 2       \* extended private keys 1..NumSeeds
NumWalletKeys == 1  \* wallet-level private keys 1..NumWalletKeys
NumWalletIds == 1   \* wallet ids the server hands out
MaxN == 2           \* largest n of an m-of-n wallet
MaxBatch == 2       \* longest list (proposals, addresses, copayers) in a response

Seeds == 1..NumSeeds
WalletKeys == 1..NumWalletKeys
WalletIds == 1..NumWalletIds
Networks == {"livenet", "testnet"}
Passwords == {"p1", "p2"}

VARIABLES
  cred,     \* this.credentials (NoCred when unset)
  op,       \* name of the last public operation called
  arg,      \* its arguments
  reqs,     \* the requests it handed to the transport, in order
  resp,     \* the responses the transport gave, in order
  res,      \* its outcome: [how, err, val]
  pending,  \* last recreateWallet: ring positions whose join is still in flight
  accepted, \* last recreateWallet: ring positions whose join the server accepted
  cbCount   \* last recreateWallet or _doRequest: times the callback has run

vars == <<cred, op, arg, reqs, resp, res, pending, accepted, cbCount>>

(* ------------------- symbolic crypto (Bitcore, WalletUtils, sjcl) ------ *)
NetOf(xPrivKey) == IF xPrivKey % 2 = 1 THEN "livenet" ELSE "testnet"
XPubOf(xPrivKey) == 100 + xPrivKey
RequestPrivOf(xPrivKey) == 200 + xPrivKey
SigningPubOfXPub(xPubKey) == xPubKey + 200
PubOfPriv(privKey) == privKey + 100
XPubToCopayerId(xPubKey) == xPubKey + 300
PrivateKeyToAESKey(privKey) == IF privKey = 0 THEN 0 ELSE privKey + 500
XPubs == {XPubOf(k) : k \in Seeds}

NoSig == [msg |-> <<>>, key |-> 0]
SignMessage(msg, privKey) == [msg |-> <<msg>>, key |-> privKey]
VerifyMessage(msg, sig, pubKey) ==
  /\ sig.key # 0
  /\ sig.msg = <<msg>>
  /\ PubOfPriv(sig.key) = pubKey

NullMsg == [kind |-> "null", pt |-> "", key |-> 0]
Plain(s) == [kind |-> "plain", pt |-> s, key |-> 0]
EncryptMessage(pt, key) == [kind |-> "cipher", pt |-> pt, key |-> key]
CanDecrypt(ct, key) == ct.kind = "cipher" /\ ct.key = key /\ key # 0

GetProposalHash(toAddress, amount, message) ==
  [toAddress |-> toAddress, amount |-> amount, message |-> message]

ToSecret(walletId, walletPrivKey, network) ==
  [walletId |-> walletId, walletPrivKey |-> walletPrivKey, network |-> network, ok |-> TRUE]
BadSecret == [walletId |-> 0, walletPrivKey |-> 0, network |-> "", ok |-> FALSE]

(* ------------------------------ Credentials ---------------------------- *)
NoCred ==
  [present |-> FALSE, network |-> "", xPrivKey |-> 0, xPubKey |-> 0,
   requestPrivKey |-> 0, copayerId |-> 0, personalEncryptingKey |-> 0,
   publicKeyRing |-> <<>>, walletId |-> 0, walletName |-> "", m |-> 0, n |-> 0,
   walletPrivKey |-> 0, sharedEncryptingKey |-> 0, copayerName |-> ""]

CredentialsFromExtendedPrivateKey(xPrivKey) ==
  [NoCred EXCEPT !.present = TRUE, !.network = NetOf(xPrivKey),
     !.xPrivKey = xPrivKey, !.xPubKey = XPubOf(xPrivKey),
     !.requestPrivKey = RequestPrivOf(xPrivKey),
     !.copayerId = XPubToCopayerId(XPubOf(xPrivKey)),
     !.personalEncryptingKey = PrivateKeyToAESKey(RequestPrivOf(xPrivKey))]

\* the keys Credentials.create(network) may generate
CredentialsCreate(network) ==
  {CredentialsFromExtendedPrivateKey(k) : k \in {s \in Seeds : NetOf(s) = network}}

InSeq(x, s) == \E i \in 1..Len(s) : s[i] = x

RECURSIVE AppendNew(_, _)
AppendNew(ring, xpubs) ==
  IF xpubs = <<>> THEN ring
  ELSE AppendNew(IF InSeq(Head(xpubs), ring) THEN ring ELSE Append(ring, Head(xpubs)),
                 Tail(xpubs))

AddPublicKeyRing(c, xpubs) ==
  [c EXCEPT !.publicKeyRing = AppendNew(c.publicKeyRing, xpubs)]

AddWalletInfo(c, walletId, walletName, m, n, walletPrivKey, copayerName) ==
  [c EXCEPT !.walletId = walletId, !.walletName = walletName, !.m = m, !.n = n,
     !.walletPrivKey = walletPrivKey,
     !.sharedEncryptingKey = PrivateKeyToAESKey(walletPrivKey),
     !.copayerName = copayerName,
     !.publicKeyRing = AppendNew(c.publicKeyRing, <<c.xPubKey>>)]

HasWalletInfo(c) == c.walletId # 0
CredIsComplete(c) == c.m # 0 /\ c.n # 0 /\ Len(c.publicKeyRing) = c.n
CredCanSign(c) == c.xPrivKey # 0

\* API.prototype.isComplete / canSign
isComplete == cred.present /\ CredIsComplete(cred)
canSign == cred.present /\ CredCanSign(cred)

(* ------------------------- outcomes and requests ----------------------- *)
NoVal == [kind |-> "none"]
Outcome(how, err, val) == [how |-> how, err |-> err, val |-> val]
Threw(err) == Outcome("throw", err, NoVal)
CbErr(err) == Outcome("cb", err, NoVal)
CbOk(val) == Outcome("cb", "none", val)
Returned(val) == Outcome("return", "none", val)
NoArg == [kind |-> "none"]

Init ==
  /\ cred = NoCred
  /\ op = "new"
  /\ arg = NoArg
  /\ reqs = <<>>
  /\ resp = <<>>
  /\ res = Returned(NoVal)
  /\ pending = {}
  /\ accepted = {}
  /\ cbCount = 0

\* The caller starts its next operation once every join of a recreateWallet call
\* has been answered: the answers to a call that has already failed change
\* nothing but async.each's own counters.
Idle == pending = {}

\* a call that does not use the transport
Local(name, a, c, r) ==
  /\ Idle
  /\ cred' = c
  /\ op' = name
  /\ arg' = a
  /\ reqs' = <<>>
  /\ resp' = <<>>
  /\ res' = r
  /\ pending' = {}
  /\ accepted' = {}
  /\ cbCount' = 0

seedFromRandom ==
  \E network \in Networks : \E c \in CredentialsCreate(network) :
    Local("seedFromRandom", [network |-> network], c, Returned(NoVal))

seedFromExtendedPrivateKey ==
  \E k \in Seeds :
    Local("seedFromExtendedPrivateKey", [xPrivKey |-> k],
          CredentialsFromExtendedPrivateKey(k), Returned(NoVal))

(* --------------------------- export / import --------------------------- *)
BOOL == {TRUE, FALSE}
ExportOpts == [compressed : BOOL, password : {"", "p1"}, noSign : BOOL]
ImportOpts == [compressed : BOOL, password : Passwords \cup {""}]

\* Credentials.fromObj / toObj: a copy, field by field
CredentialsFromObj(obj) == obj
CredentialsToObj(c) == c

\* Credentials.exportCompressed: the fields that live on the server only are left out
ExportCompressed(c) == [c EXCEPT !.walletId = 0, !.walletName = "", !.copayerName = ""]
ImportCompressed(obj) == obj

\* a serialized string: what it holds, how it is laid out, and the password
\* it is encrypted under ("" when it is plain text)
Payload(enc, fmt, obj) == [kind |-> "payload", enc |-> enc, fmt |-> fmt, obj |-> obj]
Garbage == Payload("", "garbage", NoCred)
SjclEncrypt(password, s) == [s EXCEPT !.enc = password]
SjclDecryptOk(password, s) == s.enc # "" /\ s.enc = password
SjclDecrypt(password, s) == [s EXCEPT !.enc = ""]
ParsesAs(fmt, s) == s.enc = "" /\ s.fmt = fmt /\ s.obj.present

ExportString(c, opts) ==
  LET copy == CredentialsFromObj(c)
      stripped == IF opts.noSign THEN [copy EXCEPT !.xPrivKey = 0] ELSE copy
      output == IF opts.compressed
                THEN Payload("", "compressed", ExportCompressed(stripped))
                ELSE Payload("", "json", CredentialsToObj(stripped))
  IN IF opts.password # "" THEN SjclEncrypt(opts.password, output) ELSE output

export ==
  \E opts \in ExportOpts :
    Local("export", opts, cred,
          IF ~cred.present THEN Threw("checkState")
          ELSE Returned(ExportString(cred, opts)))

\* the error import raises when sjcl.decrypt fails
DecryptFailure == "sjcl exception"

\* [cred, res] of import(str, opts) called on credentials c
ImportResult(c, str, opts) ==
  LET encrypted == opts.password # ""
      input == IF encrypted THEN SjclDecrypt(opts.password, str) ELSE str
      fmt == IF opts.compressed THEN "compressed" ELSE "json"
  IN IF encrypted /\ ~SjclDecryptOk(opts.password, str)
     THEN [cred |-> c, res |-> Threw(DecryptFailure)]
     ELSE IF ~ParsesAs(fmt, input)
     THEN [cred |-> c, res |-> Threw("Error importing from source")]
     ELSE [cred |-> IF opts.compressed THEN ImportCompressed(input.obj)
                    ELSE CredentialsFromObj(input.obj),
           res |-> Returned(NoVal)]

\* the strings a caller holds: the one export has just returned, or anything else
ImportSources ==
  {Garbage} \cup (IF op = "export" /\ res.err = "none" THEN {res.val} ELSE {})

import ==
  \E str \in ImportSources : \E opts \in ImportOpts :
    LET r == ImportResult(cred, str, opts)
    IN Local("import", [str |-> str, opts |-> opts], r.cred, r.res)

toString ==
  Local("toString", NoArg, cred,
        IF ~cred.present THEN Threw("checkState")
        ELSE Returned([kind |-> "object", obj |-> cred]))

fromString ==
  /\ op = "toString"
  /\ res.err = "none"
  /\ Local("fromString", [str |-> res.val], CredentialsFromObj(res.val.obj), Returned(NoVal))

(* ------------------------------ transport ------------------------------ *)
Url(base, id, tail) == [base |-> base, id |-> id, tail |-> tail]

\* API._signRequest
SignRequest(method, url, args, privKey) ==
  SignMessage([method |-> method, url |-> url, args |-> args], privKey)

\* mutant: the signature is made before the arguments are known
DoRequest_SignNoArgs(c, method, url, args) ==
  [method |-> method, url |-> url, body |-> args,
   identity |-> c.copayerId,
   signature |-> IF c.requestPrivKey # 0
                 THEN SignRequest(method, url, [kind |-> "empty"], c.requestPrivKey)
                 ELSE NoSig]

\* API.prototype._doRequest: the request handed to this.request
DoRequest(c, method, url, args) ==
  [method |-> method, url |-> url, body |-> args,
   identity |-> c.copayerId,
   signature |-> IF c.requestPrivKey # 0
                 THEN SignRequest(method, url, args, c.requestPrivKey)
                 ELSE NoSig]
DoPostRequest(c, url, args) == DoRequest(c, "post", url, args)
DoGetRequest(c, url) == DoRequest(c, "get", url, [kind |-> "empty"])
DoDeleteRequest(c, url) == DoRequest(c, "delete", url, [kind |-> "empty"])

\* what the transport calls back with: (err, res.statusCode, body)
\* err is the transport's error (NoError: none), as a value
NoError == [kind |-> "none", code |-> "none"]
TransportFailure(code) == [kind |-> "transport", code |-> code]
Response(err, status, body) ==
  [err |-> IF err THEN TransportFailure("transport error") ELSE NoError,
   status |-> status, body |-> body]
\* bodies of failed requests: an object with or without a code, a string that
\* is or is not JSON, and no body at all
ErrorBody(code) ==
  [kind |-> "error", code |-> code,
   message |-> IF code = "" THEN "" ELSE "message of " \o code,
   error |-> IF code = "" THEN "Internal error" ELSE ""]
NullBody == [kind |-> "null"]
JsonString(body) == [kind |-> "string", json |-> TRUE, parsed |-> body, text |-> ""]
TextString(text) == [kind |-> "string", json |-> FALSE, parsed |-> NullBody, text |-> text]
Ok200(body) == Response(FALSE, 200, body)
FailedResponses ==
  {Response(TRUE, 0, ErrorBody("")),
   Response(FALSE, 400, ErrorBody("WNOTFOUND")),
   Response(FALSE, 500, ErrorBody(""))}

ClientError(code, message) == [kind |-> "ClientError", code |-> code, message |-> message]
UnknownError == "There was an unknown error processing the request"

\* mutant: a string body is not parsed
ParseError_NoParse(body) ==
  LET obj == IF body.kind = "string"
             THEN [kind |-> "error", code |-> "", message |-> "", error |-> body.text]
             ELSE body
  IN IF obj.kind # "null" /\ obj.code # ""
     THEN ClientError(obj.code, obj.message)
     ELSE [kind |-> "generic", code |-> "ERROR",
           error |-> IF obj.kind # "null" THEN obj.error ELSE UnknownError]

\* API._parseError
ParseError(body) ==
  LET obj == IF body.kind = "string"
             THEN IF body.json THEN body.parsed
                  ELSE [kind |-> "error", code |-> "", message |-> "", error |-> body.text]
             ELSE body
  IN IF obj.kind # "null" /\ obj.code # ""
     THEN ClientError(obj.code, obj.message)
     ELSE [kind |-> "generic", code |-> "ERROR",
           error |-> IF obj.kind # "null" THEN obj.error ELSE UnknownError]

\* what _doRequest calls its callback with, for the transport's r
DoRequestCallback(r) ==
  IF r.err # NoError THEN Outcome("cb", r.err, NoVal)
  ELSE IF r.status # 200 THEN Outcome("cb", ParseError(r.body), NoVal)
  ELSE Outcome("cb", NoError, r.body)

\* the err argument _doRequest's callback passes on, by its code
\* ("none": no error)
RequestError(r) == DoRequestCallback(r).err.code

\* _doRequest itself, called with any method, url and arguments
Methods == {"get", "post", "delete"}
TransportResults ==
  {[err |-> TransportFailure(e), status |-> 0, body |-> NullBody] :
     e \in {"transport error", "ETIMEDOUT"}}
    \cup {[err |-> NoError, status |-> s, body |-> b] :
            s \in {200, 201, 400, 500},
            b \in {ErrorBody("WNOTFOUND"), ErrorBody(""), NullBody,
                   JsonString(ErrorBody("WNOTFOUND")), JsonString(NullBody),
                   TextString("Bad Gateway")}}
doRequest ==
  \E method \in Methods, id \in {0, 1}, r \in TransportResults :
    LET a == [method |-> method, url |-> Url("/v1/txproposals/", id, ""),
              args |-> [kind |-> "empty"]]
    IN /\ Idle
       /\ cred' = cred
       /\ op' = "_doRequest"
       /\ arg' = a
       /\ pending' = {}
       /\ accepted' = {}
       /\ IF ~cred.present
          THEN /\ reqs' = <<>> /\ resp' = <<>>
               /\ res' = Threw("checkState") /\ cbCount' = 0
          ELSE /\ reqs' = <<DoRequest(cred, method, a.url, a.args)>>
               /\ resp' = <<r>>
               /\ res' = DoRequestCallback(r)
               /\ cbCount' = 1

\* a call that used the transport
Remote(name, a, c, rq, rs, r) ==
  /\ Idle
  /\ cred' = c
  /\ op' = name
  /\ arg' = a
  /\ reqs' = rq
  /\ resp' = rs
  /\ res' = r
  /\ pending' = {}
  /\ accepted' = {}
  /\ cbCount' = 0

\* the result of a handler: the credentials it leaves and its outcome
Result(c, r) == [cred |-> c, res |-> r]

(* ------------------------------- Verifier ------------------------------ *)
CheckCopayers(c, copayers) ==
  \A i \in 1..Len(copayers) :
    copayers[i].xPubKeySignature = SignMessage(copayers[i].xPubKey, c.walletPrivKey)

(* ------------------------------ openWallet ----------------------------- *)
SeqsUpTo(S, k) == UNION {[1..len -> S] : len \in 0..k}
MN == {mn \in (1..MaxN) \X (1..MaxN) : mn[1] <= mn[2]}

\* what a server can answer for one copayer: any key, with a membership proof
\* made with a wallet key or with a key of its own
ForeignKey == NumWalletKeys + 1
ServerCopayers ==
  {[id |-> XPubToCopayerId(x), name |-> "alice", xPubKey |-> x,
    xPubKeySignature |-> SignMessage(x, w)] :
      x \in XPubs, w \in WalletKeys \cup {ForeignKey}}
ServerWallet(id, mn, st, cps) ==
  [kind |-> "wallet", id |-> id, name |-> "fam", m |-> mn[1], n |-> mn[2],
   status |-> st, copayers |-> cps]
\* openWallet reads nothing but the status of a wallet that is not complete
ServerWallets ==
  {ServerWallet(1, <<1, 1>>, "pending", <<>>)} \cup
  {ServerWallet(id, mn, "complete", cps) :
      id \in WalletIds, mn \in MN, cps \in SeqsUpTo(ServerCopayers, MaxBatch)}

Pluck(copayers) == [i \in 1..Len(copayers) |-> copayers[i].xPubKey]
HasMe(c, copayers) == \E i \in 1..Len(copayers) : copayers[i].id = c.copayerId
Me(c, copayers) ==
  copayers[CHOOSE i \in 1..Len(copayers) :
             /\ copayers[i].id = c.copayerId
             /\ \A j \in 1..(i - 1) : copayers[j].id # c.copayerId]

\* mutant: the ring is merged before the copayers are verified
OpenWalletCallback_RingFirst(c, r) ==
  LET wallet == r.body
      ring == AddPublicKeyRing(c, Pluck(wallet.copayers))
  IN IF RequestError(r) # "none" THEN Result(c, CbErr(RequestError(r)))
     ELSE IF wallet.status # "complete" THEN Result(c, CbErr("Wallet Incomplete"))
     ELSE IF c.walletPrivKey # 0 /\ ~CheckCopayers(c, wallet.copayers)
     THEN Result(ring, CbErr("ServerCompromisedError"))
     ELSE IF HasWalletInfo(ring) THEN Result(ring, CbOk([kind |-> "flag", flag |-> TRUE]))
     ELSE IF ~HasMe(c, wallet.copayers) THEN Result(ring, Threw("TypeError"))
     ELSE Result(AddWalletInfo(ring, wallet.id, wallet.name, wallet.m, wallet.n, 0,
                               Me(c, wallet.copayers).name),
                 CbOk([kind |-> "flag", flag |-> TRUE]))

\* the callback of openWallet's GET /v1/wallets/
OpenWalletCallback(c, r) ==
  LET wallet == r.body
      ring == AddPublicKeyRing(c, Pluck(wallet.copayers))
  IN IF RequestError(r) # "none" THEN Result(c, CbErr(RequestError(r)))
     ELSE IF wallet.status # "complete" THEN Result(c, CbErr("Wallet Incomplete"))
     ELSE IF c.walletPrivKey # 0 /\ ~CheckCopayers(c, wallet.copayers)
     THEN Result(c, CbErr("ServerCompromisedError"))
     ELSE IF HasWalletInfo(ring) THEN Result(ring, CbOk([kind |-> "flag", flag |-> TRUE]))
     ELSE IF ~HasMe(c, wallet.copayers) THEN Result(ring, Threw("TypeError"))
     ELSE Result(AddWalletInfo(ring, wallet.id, wallet.name, wallet.m, wallet.n, 0,
                               Me(c, wallet.copayers).name),
                 CbOk([kind |-> "flag", flag |-> TRUE]))

\* mutant: no early return on credentials that are already complete
openWallet_NoEarlyReturn ==
  \/ /\ ~cred.present
     /\ Local("openWallet", NoArg, cred, Threw("checkState"))
  \/ /\ cred.present
     /\ \E r \in FailedResponses \cup {Ok200(w) : w \in ServerWallets} :
          LET out == OpenWalletCallback(cred, r)
          IN Remote("openWallet", NoArg, out.cred,
                    <<DoGetRequest(cred, Url("/v1/wallets/", 0, ""))>>, <<r>>, out.res)

openWallet ==
  \/ /\ ~cred.present
     /\ Local("openWallet", NoArg, cred, Threw("checkState"))
  \/ /\ cred.present
     /\ CredIsComplete(cred)
     /\ Local("openWallet", NoArg, cred, CbOk([kind |-> "flag", flag |-> FALSE]))
  \/ /\ cred.present
     /\ ~CredIsComplete(cred)
     /\ \E r \in FailedResponses \cup {Ok200(w) : w \in ServerWallets} :
          LET out == OpenWalletCallback(cred, r)
          IN Remote("openWallet", NoArg, out.cred,
                    <<DoGetRequest(cred, Url("/v1/wallets/", 0, ""))>>, <<r>>, out.res)

(* ----------------------- createWallet / joinWallet --------------------- *)
WalletPubOf(walletPrivKey) == PubOfPriv(walletPrivKey)

\* mutant: the copayer's key is signed with the request key
JoinRequest_RequestKey(c, walletId, walletPrivKey, xPubKey, copayerName) ==
  DoPostRequest(c, Url("/v1/wallets/", walletId, "/copayers"),
    [kind |-> "join", walletId |-> walletId, name |-> copayerName, xPubKey |-> xPubKey,
     xPubKeySignature |-> SignMessage(xPubKey, c.requestPrivKey)])

\* API.prototype._doJoinWallet: the request
JoinRequest(c, walletId, walletPrivKey, xPubKey, copayerName) ==
  DoPostRequest(c, Url("/v1/wallets/", walletId, "/copayers"),
    [kind |-> "join", walletId |-> walletId, name |-> copayerName, xPubKey |-> xPubKey,
     xPubKeySignature |-> SignMessage(xPubKey, walletPrivKey)])

RegisterRequest(c, name, m, n, walletPrivKey, network) ==
  DoPostRequest(c, Url("/v1/wallets/", 0, ""),
    [kind |-> "register", name |-> name, m |-> m, n |-> n,
     pubKey |-> WalletPubOf(walletPrivKey), network |-> network])

Registered == {Ok200([kind |-> "registered", walletId |-> id]) : id \in WalletIds}
\* the wallet a join answers with
Joined ==
  {Ok200(ServerWallet(id, mn, "pending", <<>>)) : id \in WalletIds, mn \in MN}

CreateArgs ==
  {[walletName |-> "fam", copayerName |-> "alice", m |-> mn[1], n |-> mn[2],
    network |-> net] : mn \in MN, net \in Networks \cup {"badnet"}}

\* the credentials createWallet works on: seeded when there were none
CreateSeeded(c, network) == IF c.present THEN {c} ELSE CredentialsCreate(network)

\* mutant: the secret is returned for a wallet of one copayer too
CreateWalletRun_SecretAlways(c, a, walletPrivKey, r1, r2) ==
  LET register == RegisterRequest(c, a.walletName, a.m, a.n, walletPrivKey, a.network)
      walletId == r1.body.walletId
      secret == ToSecret(walletId, walletPrivKey, a.network)
      bound == AddWalletInfo(c, walletId, a.walletName, a.m, a.n, walletPrivKey,
                             a.copayerName)
      join == JoinRequest(bound, walletId, walletPrivKey, bound.xPubKey, a.copayerName)
  IN IF RequestError(r1) # "none"
     THEN [cred |-> c, res |-> CbErr(RequestError(r1)), reqs |-> <<register>>,
           resp |-> <<r1>>]
     ELSE [cred |-> bound,
           res |-> IF RequestError(r2) # "none" THEN CbErr(RequestError(r2))
                   ELSE CbOk([kind |-> "secret", secret |-> secret]),
           reqs |-> <<register, join>>, resp |-> <<r1, r2>>]

\* createWallet once the registration has been answered with r1 and, if it
\* was sent at all, the join with r2: [cred, res, reqs, resp]
CreateWalletRun(c, a, walletPrivKey, r1, r2) ==
  LET register == RegisterRequest(c, a.walletName, a.m, a.n, walletPrivKey, a.network)
      walletId == r1.body.walletId
      secret == ToSecret(walletId, walletPrivKey, a.network)
      bound == AddWalletInfo(c, walletId, a.walletName, a.m, a.n, walletPrivKey,
                             a.copayerName)
      join == JoinRequest(bound, walletId, walletPrivKey, bound.xPubKey, a.copayerName)
  IN IF RequestError(r1) # "none"
     THEN [cred |-> c, res |-> CbErr(RequestError(r1)), reqs |-> <<register>>,
           resp |-> <<r1>>]
     ELSE [cred |-> bound,
           res |-> IF RequestError(r2) # "none" THEN CbErr(RequestError(r2))
                   ELSE CbOk(IF a.n > 1 THEN [kind |-> "secret", secret |-> secret]
                             ELSE [kind |-> "null"]),
           reqs |-> <<register, join>>, resp |-> <<r1, r2>>]

\* mutant: existing keys are used whatever network they were created for
createWallet_AnyNetwork ==
  \E a \in CreateArgs :
    \/ /\ a.network \notin Networks
       /\ Local("createWallet", a, cred, CbErr("Invalid network"))
    \/ /\ a.network \in Networks
       /\ \E c \in CreateSeeded(cred, a.network) :
            \E w \in WalletKeys, r1 \in FailedResponses \cup Registered,
               r2 \in FailedResponses \cup Joined :
              LET run == CreateWalletRun(c, a, w, r1, r2)
              IN /\ (RequestError(r1) # "none" => r2 = Response(TRUE, 0, ErrorBody("")))
                 /\ Remote("createWallet", a, run.cred, run.reqs, run.resp, run.res)

createWallet ==
  \E a \in CreateArgs :
    \/ /\ a.network \notin Networks
       /\ Local("createWallet", a, cred, CbErr("Invalid network"))
    \/ /\ a.network \in Networks
       /\ \E c \in CreateSeeded(cred, a.network) :
            \/ /\ a.network # c.network
               /\ Local("createWallet", a, c,
                        CbErr("Existing keys were created for a different network"))
            \/ /\ a.network = c.network
               /\ \E w \in WalletKeys, r1 \in FailedResponses \cup Registered,
                     r2 \in FailedResponses \cup Joined :
                    LET run == CreateWalletRun(c, a, w, r1, r2)
                    IN /\ (RequestError(r1) # "none" => r2 = Response(TRUE, 0, ErrorBody("")))
                       /\ Remote("createWallet", a,
                                 run.cred, run.reqs, run.resp, run.res)

Secrets ==
  {ToSecret(id, w, net) : id \in WalletIds, w \in WalletKeys, net \in Networks}
    \cup {BadSecret}

\* WalletUtils.fromSecret throws on a string that is no secret
FromSecretOk(secret) == secret.ok

\* mutant: the wallet is bound before the answer to the join is looked at
JoinWalletCallback_BindFirst(c, secretData, copayerName, r) ==
  LET wallet == r.body
      bound == AddWalletInfo(c, secretData.walletId, "", 1, 1,
                             secretData.walletPrivKey, copayerName)
  IN IF RequestError(r) # "none" THEN Result(bound, CbErr(RequestError(r)))
     ELSE Result(AddWalletInfo(c, wallet.id, wallet.name, wallet.m, wallet.n,
                               secretData.walletPrivKey, copayerName),
                 CbOk(wallet))

\* the callback of joinWallet's join request
JoinWalletCallback(c, secretData, copayerName, r) ==
  LET wallet == r.body
  IN IF RequestError(r) # "none" THEN Result(c, CbErr(RequestError(r)))
     ELSE Result(AddWalletInfo(c, wallet.id, wallet.name, wallet.m, wallet.n,
                               secretData.walletPrivKey, copayerName),
                 CbOk(wallet))

\* mutant: the credentials are seeded before the secret is decoded
joinWallet_SeedFirst ==
  \E secret \in Secrets :
    LET a == [secret |-> secret, copayerName |-> "alice"]
    IN \/ /\ ~FromSecretOk(secret)
          /\ \E c \in CreateSeeded(cred, "livenet") :
               Local("joinWallet", a, c, CbErr("Invalid secret"))
       \/ /\ FromSecretOk(secret)
          /\ \E c \in CreateSeeded(cred, secret.network), r \in FailedResponses \cup Joined :
               LET out == JoinWalletCallback(c, secret, a.copayerName, r)
               IN Remote("joinWallet", a, out.cred,
                         <<JoinRequest(c, secret.walletId, secret.walletPrivKey,
                                       c.xPubKey, a.copayerName)>>,
                         <<r>>, out.res)

joinWallet ==
  \E secret \in Secrets :
    LET a == [secret |-> secret, copayerName |-> "alice"]
    IN \/ /\ ~FromSecretOk(secret)
          /\ Local("joinWallet", a, cred, CbErr("Invalid secret"))
       \/ /\ FromSecretOk(secret)
          /\ \E c \in CreateSeeded(cred, secret.network), r \in FailedResponses \cup Joined :
               LET out == JoinWalletCallback(c, secret, a.copayerName, r)
               IN Remote("joinWallet", a, out.cred,
                         <<JoinRequest(c, secret.walletId, secret.walletPrivKey,
                                       c.xPubKey, a.copayerName)>>,
                         <<r>>, out.res)

(* ----------------------------- recreateWallet -------------------------- *)
RecoveredNames ==
  <<"recovered copayer #1", "recovered copayer #2", "recovered copayer #3",
    "recovered copayer #4", "recovered copayer #5">>

\* mutant: i counts every entry before j
OthersBefore_All(c, j) == j - 1

\* the value of i when the iterator runs on ring position j: 1 + the entries
\* before j that are not the client's own key
OthersBefore(c, j) == Cardinality({k \in 1..(j - 1) : c.publicKeyRing[k] # c.xPubKey})

RecreateJoinName(c, j) ==
  IF c.publicKeyRing[j] = c.xPubKey THEN c.copayerName
  ELSE RecoveredNames[OthersBefore(c, j) + 1]

\* async.each calls the iterator on every ring entry, in ring order, before
\* any join is answered
RecreateJoins(c, walletId) ==
  [j \in 1..Len(c.publicKeyRing) |->
     JoinRequest(c, walletId, c.walletPrivKey, c.publicKeyRing[j], RecreateJoinName(c, j))]

RecreateRegister(c) ==
  RegisterRequest(c, IF c.walletName # "" THEN c.walletName ELSE "recovered wallet",
                  c.m, c.n, c.walletPrivKey, c.network)

Pending == Outcome("pending", "none", NoVal)

\* the call, up to the answer to the registration
recreateWallet ==
  /\ pending = {}
  /\ cred' = cred
  /\ op' = "recreateWallet"
  /\ arg' = NoArg
  /\ accepted' = {}
  /\ \/ /\ ~(cred.present /\ CredIsComplete(cred) /\ HasWalletInfo(cred))
        /\ res' = Threw("checkState")
        /\ reqs' = <<>> /\ resp' = <<>> /\ pending' = {} /\ cbCount' = 0
     \/ /\ cred.present /\ CredIsComplete(cred) /\ HasWalletInfo(cred)
        /\ cred.walletPrivKey = 0
        /\ res' = Threw("Invalid private key")
        /\ reqs' = <<>> /\ resp' = <<>> /\ pending' = {} /\ cbCount' = 0
     \/ /\ cred.present /\ CredIsComplete(cred) /\ HasWalletInfo(cred)
        /\ cred.walletPrivKey # 0
        /\ \E r \in FailedResponses \cup Registered :
             /\ resp' = <<r>>
             /\ IF RequestError(r) # "none"
                THEN /\ res' = CbErr(RequestError(r))
                     /\ reqs' = <<RecreateRegister(cred)>>
                     /\ pending' = {} /\ cbCount' = 1
                ELSE /\ res' = Pending
                     /\ reqs' = <<RecreateRegister(cred)>> \o
                                RecreateJoins(cred, r.body.walletId)
                     /\ pending' = 1..Len(cred.publicKeyRing) /\ cbCount' = 0

\* async.each's done(err), run when the join of ring position i is answered
\* with r: [res, cbCount] after it
EachDone(ringLen, nAccepted, r, out, count) ==
  IF count > 0 THEN [res |-> out, cbCount |-> count]
  ELSE IF RequestError(r) # "none" THEN [res |-> CbErr(RequestError(r)), cbCount |-> 1]
  ELSE IF nAccepted >= ringLen THEN [res |-> CbOk(NoVal), cbCount |-> 1]
  ELSE [res |-> out, cbCount |-> 0]

\* the server answers the join of one ring position; it has accepted the
\* copayer exactly when it answers 200
recreateJoinAnswered ==
  \E i \in pending, r \in FailedResponses \cup {Ok200(ServerWallet(1, <<1, 1>>, "pending", <<>>))} :
    LET acc == IF RequestError(r) = "none" THEN accepted \cup {i} ELSE accepted
        done == EachDone(Len(cred.publicKeyRing), Cardinality(acc), r, res, cbCount)
    IN /\ pending' = pending \ {i}
       /\ accepted' = acc
       /\ IF cbCount = 0
          THEN /\ res' = done.res
               /\ cbCount' = done.cbCount
               /\ resp' = Append(resp, r)
          ELSE UNCHANGED <<res, cbCount, resp>>
       /\ UNCHANGED <<cred, op, arg, reqs>>

(* ------------------------- transaction proposals ----------------------- *)
Undefined == [kind |-> "undefined", pt |-> "", key |-> 0]
Missing(message) == message.kind \in {"null", "undefined"}

\* API._encryptMessage / API._decryptMessage
ApiEncryptMessage(message, encryptingKey) ==
  IF message = "" THEN NullMsg ELSE EncryptMessage(message, encryptingKey)
\* mutant: a message that cannot be decrypted is left as it came
ApiDecryptMessage_KeepCipher(message, encryptingKey) ==
  IF Missing(message) THEN Plain("")
  ELSE IF CanDecrypt(message, encryptingKey) THEN Plain(message.pt)
  ELSE message
ApiDecryptMessage(message, encryptingKey) ==
  IF Missing(message) THEN Plain("")
  ELSE IF CanDecrypt(message, encryptingKey) THEN Plain(message.pt)
  ELSE Plain("<ECANNOTDECRYPT>")

\* API._processTxps, on one proposal
ProcessTxp(txp, encryptingKey) ==
  [txp EXCEPT !.encryptedMessage = txp.message,
              !.message = ApiDecryptMessage(txp.message, encryptingKey),
              !.actions = [i \in 1..Len(txp.actions) |->
                             [comment |-> ApiDecryptMessage(txp.actions[i].comment,
                                                           encryptingKey)]]]
ProcessTxps(txps, encryptingKey) ==
  [i \in 1..Len(txps) |-> ProcessTxp(txps[i], encryptingKey)]

\* Verifier.checkTxProposal: the creator is looked up in the ring by id and
\* must have signed the hash of (toAddress, amount, message as on the wire)
WireMessage(txp) ==
  IF txp.encryptedMessage.kind = "undefined" THEN txp.message ELSE txp.encryptedMessage
CheckTxProposal(c, txp) ==
  \E i \in 1..Len(c.publicKeyRing) :
    /\ XPubToCopayerId(c.publicKeyRing[i]) = txp.creatorId
    /\ VerifyMessage(GetProposalHash(txp.toAddress, txp.amount, WireMessage(txp)),
                     txp.proposalSignature, SigningPubOfXPub(c.publicKeyRing[i]))

\* WalletUtils.signTxp
SignTxp(txp, xPrivKey) ==
  [kind |-> "signatures", id |-> txp.id, amount |-> txp.amount, key |-> xPrivKey]
NoSignatures == [kind |-> "signatures", id |-> 0, amount |-> 0, key |-> 0]

\* a proposal as a copayer holding seed k makes it (sendTxProposal), and as
\* the server may hand it on: with the amount raised after signing (forged)
WireTxp(k, forged, message) ==
  [id |-> 1, creatorId |-> XPubToCopayerId(XPubOf(k)), toAddress |-> "addr",
   amount |-> IF forged THEN 2 ELSE 1, message |-> message,
   encryptedMessage |-> Undefined,
   proposalSignature |-> SignMessage(GetProposalHash("addr", 1, message), RequestPrivOf(k)),
   actions |-> <<[comment |-> message]>>, signatures |-> NoSignatures]
WireMessages ==
  {EncryptMessage("hi", PrivateKeyToAESKey(w)) : w \in WalletKeys \cup {ForeignKey}}
\* what a server can answer: a proposal of any copayer without a message, one
\* forged, and proposals with a message under a wallet's key or another key
ServerTxps ==
  {WireTxp(k, FALSE, NullMsg) : k \in Seeds} \cup {WireTxp(1, TRUE, NullMsg)}
    \cup {WireTxp(1, FALSE, msg) : msg \in WireMessages}

TxpOpts == [doNotVerify : BOOL, forAirGapped : BOOL]

\* mutant: only the first proposal of the batch is verified
FakeTxp_FirstOnly(c, opts, txps) ==
  Len(txps) > 0 /\ ~opts.doNotVerify /\ ~CheckTxProposal(c, txps[1])

\* getTxProposals: whether the batch holds a fake
FakeTxp(c, opts, txps) ==
  \E i \in 1..Len(txps) : ~opts.doNotVerify /\ ~CheckTxProposal(c, txps[i])

EncryptedPkr(ring, key) == EncryptMessage([json |-> "array", ring |-> ring], key)

\* mutant: the ring of the bundle is encrypted under the shared key
GetTxProposalsCallback_SharedKey(c, opts, r) ==
  LET txps == ProcessTxps(r.body.list, c.sharedEncryptingKey)
  IN IF RequestError(r) # "none" THEN CbErr(RequestError(r))
     ELSE IF FakeTxp(c, opts, txps) THEN CbErr("ServerCompromisedError")
     ELSE IF opts.forAirGapped
     THEN CbOk([kind |-> "bundle", txps |-> txps,
                encryptedPkr |-> EncryptedPkr(c.publicKeyRing, c.sharedEncryptingKey),
                m |-> c.m, n |-> c.n])
     ELSE CbOk([kind |-> "list", txps |-> txps])

\* the callback of getTxProposals' GET /v1/txproposals/
GetTxProposalsCallback(c, opts, r) ==
  LET txps == ProcessTxps(r.body.list, c.sharedEncryptingKey)
  IN IF RequestError(r) # "none" THEN CbErr(RequestError(r))
     ELSE IF FakeTxp(c, opts, txps) THEN CbErr("ServerCompromisedError")
     ELSE IF opts.forAirGapped
     THEN CbOk([kind |-> "bundle", txps |-> txps,
                encryptedPkr |-> EncryptedPkr(c.publicKeyRing, c.personalEncryptingKey),
                m |-> c.m, n |-> c.n])
     ELSE CbOk([kind |-> "list", txps |-> txps])

ListBody(l) == [kind |-> "list", list |-> l]
Complete(c) == c.present /\ CredIsComplete(c)

getTxProposals ==
  \E opts \in TxpOpts :
    \/ /\ ~Complete(cred)
       /\ Local("getTxProposals", opts, cred, Threw("checkState"))
    \/ /\ Complete(cred)
       /\ \E r \in FailedResponses \cup
                   {Ok200(ListBody(l)) : l \in SeqsUpTo(ServerTxps, MaxBatch)} :
            Remote("getTxProposals", opts, cred,
                   <<DoGetRequest(cred, Url("/v1/txproposals/", 0, ""))>>, <<r>>,
                   GetTxProposalsCallback(cred, opts, r))

\* the proposals a caller passes to the signing calls: as getTxProposals
\* returns them, with or without signatures made elsewhere
CallerTxps(c) ==
  UNION {{ProcessTxp(t, c.sharedEncryptingKey),
          [ProcessTxp(t, c.sharedEncryptingKey) EXCEPT !.signatures = SignTxp(t, 1)]} :
            t \in ServerTxps}

\* mutant: getSignatures does not ask whether the keys are there
GetSignaturesResult_NoKeyCheck(c, txp) ==
  IF ~CheckTxProposal(c, txp) THEN CbErr("ServerCompromisedError")
  ELSE CbOk(SignTxp(txp, c.xPrivKey))

\* getSignatures, after its preconditions
GetSignaturesResult(c, txp) ==
  IF ~CredCanSign(c)
  THEN CbErr("You do not have the required keys to sign transactions")
  ELSE IF ~CheckTxProposal(c, txp) THEN CbErr("ServerCompromisedError")
  ELSE CbOk(SignTxp(txp, c.xPrivKey))

getSignatures ==
  \E txp \in CallerTxps(cred) :
    Local("getSignatures", [txp |-> txp], cred,
          IF ~Complete(cred) THEN Threw("checkState") ELSE GetSignaturesResult(cred, txp))

HasSignatures(txp) == txp.signatures # NoSignatures

\* mutant: signatures that come with the proposal are relayed unverified
SignTxProposalError_RelayUnchecked(c, txp) ==
  IF HasSignatures(txp) THEN "none"
  ELSE IF ~CredCanSign(c)
  THEN "You do not have the required keys to sign transactions"
  ELSE IF ~CheckTxProposal(c, txp) THEN "ServerCompromisedError"
  ELSE "none"

\* signTxProposal, after its preconditions: the error it ends with before any
\* request ("none": it goes on to post), and the signatures it posts
SignTxProposalError(c, txp) ==
  IF ~CredCanSign(c) /\ ~HasSignatures(txp)
  THEN "You do not have the required keys to sign transactions"
  ELSE IF ~CheckTxProposal(c, txp) THEN "ServerCompromisedError"
  ELSE "none"
SignTxProposalSignatures(c, txp) ==
  IF HasSignatures(txp) THEN txp.signatures ELSE SignTxp(txp, c.xPrivKey)
SignaturesRequest(c, txp) ==
  DoPostRequest(c, Url("/v1/txproposals/", txp.id, "/signatures/"),
                [kind |-> "signatures", signatures |-> SignTxProposalSignatures(c, txp)])

TxpBodies == {Ok200([kind |-> "txp", id |-> 1])}

signTxProposal ==
  \E txp \in CallerTxps(cred) :
    \/ /\ ~Complete(cred)
       /\ Local("signTxProposal", [txp |-> txp], cred, Threw("checkState"))
    \/ /\ Complete(cred)
       /\ SignTxProposalError(cred, txp) # "none"
       /\ Local("signTxProposal", [txp |-> txp], cred, CbErr(SignTxProposalError(cred, txp)))
    \/ /\ Complete(cred)
       /\ SignTxProposalError(cred, txp) = "none"
       /\ \E r \in FailedResponses \cup TxpBodies :
            Remote("signTxProposal", [txp |-> txp], cred, <<SignaturesRequest(cred, txp)>>,
                   <<r>>,
                   IF RequestError(r) # "none" THEN CbErr(RequestError(r)) ELSE CbOk(r.body))

(* ------------------------------- addresses ----------------------------- *)
ToSet(ring) == {ring[i] : i \in 1..Len(ring)}
DeriveAddress(keys, m, path) == [keys |-> keys, m |-> m, path |-> path]
ServerXPub == XPubOf(NumSeeds + 1)

\* Verifier.checkAddress: the address is the one the ring and the path yield
CheckAddress(c, address) ==
  address.address = DeriveAddress(ToSet(c.publicKeyRing), c.m, address.path)

\* what a server can answer: the address of the caller's ring, or one that
\* it has built with a key of its own
ServerAddresses(c) ==
  {[kind |-> "address", path |-> 0, address |-> DeriveAddress(keys, c.m, 0)] :
     keys \in {ToSet(c.publicKeyRing), ToSet(c.publicKeyRing) \cup {ServerXPub}}}

\* the callback of createAddress' POST /v1/addresses/
CreateAddressCallback(c, r) ==
  IF RequestError(r) # "none" THEN CbErr(RequestError(r))
  ELSE IF ~CheckAddress(c, r.body) THEN CbErr("ServerCompromisedError")
  ELSE CbOk(r.body)

createAddress ==
  \/ /\ ~Complete(cred)
     /\ Local("createAddress", NoArg, cred, Threw("checkState"))
  \/ /\ Complete(cred)
     /\ \E r \in FailedResponses \cup {Ok200(a) : a \in ServerAddresses(cred)} :
          Remote("createAddress", NoArg, cred,
                 <<DoPostRequest(cred, Url("/v1/addresses/", 0, ""), [kind |-> "empty"])>>,
                 <<r>>, CreateAddressCallback(cred, r))

\* mutant: only the first address of the list is verified
FakeAddress_FirstOnly(c, addresses) ==
  Len(addresses) > 0 /\ ~CheckAddress(c, addresses[1])

\* getMainAddresses: whether the list holds a fake
FakeAddress(c, addresses) ==
  \E i \in 1..Len(addresses) : ~CheckAddress(c, addresses[i])

\* the callback of getMainAddresses' GET /v1/addresses/
GetMainAddressesCallback(c, opts, r) ==
  IF RequestError(r) # "none" THEN CbErr(RequestError(r))
  ELSE IF ~opts.doNotVerify /\ FakeAddress(c, r.body.list) THEN CbErr("ServerCompromisedError")
  ELSE CbOk(r.body)

getMainAddresses ==
  \E opts \in [doNotVerify : BOOL] :
    \/ /\ ~Complete(cred)
       /\ Local("getMainAddresses", opts, cred, Threw("checkState"))
    \/ /\ Complete(cred)
       /\ \E r \in FailedResponses \cup
                   {Ok200(ListBody(l)) : l \in SeqsUpTo(ServerAddresses(cred), MaxBatch)} :
            Remote("getMainAddresses", opts, cred,
                   <<DoGetRequest(cred, Url("/v1/addresses/", 0, ""))>>, <<r>>,
                   GetMainAddressesCallback(cred, opts, r))

(* ---------------------- signTxProposalFromAirGapped -------------------- *)
\* rings of distinct keys, as a bundle carries them
Rings == {ring \in SeqsUpTo(XPubs, MaxN) : ring # <<>> /\ Cardinality(ToSet(ring)) = Len(ring)}
PersonalKeyOf(k) == PrivateKeyToAESKey(RequestPrivOf(k))
EncryptedPkrs ==
  {EncryptedPkr(ring, PersonalKeyOf(k)) : ring \in Rings, k \in Seeds}
    \cup {EncryptMessage([json |-> "object", ring |-> <<>>], PersonalKeyOf(k)) : k \in Seeds}
AirGappedTxps == {ProcessTxp(WireTxp(1, f, NullMsg), 0) : f \in BOOL}
AirGappedArgs ==
  {[txp |-> t, encryptedPkr |-> e, m |-> mn[1], n |-> mn[2]] :
     t \in AirGappedTxps, e \in EncryptedPkrs, mn \in MN}

\* the credentials with the transported m, n and ring installed
AirGappedInstall(c, a) ==
  AddPublicKeyRing([c EXCEPT !.m = a.m, !.n = a.n], a.encryptedPkr.pt.ring)

\* mutant: m and n are installed before the ring is looked at
SignTxProposalFromAirGappedResult_InstallFirst(c, a) ==
  IF ~c.present THEN Result(c, Threw("checkState"))
  ELSE IF ~CredCanSign(c)
  THEN Result(c, Threw("You do not have the required keys to sign transactions"))
  ELSE IF ~CanDecrypt(a.encryptedPkr, c.personalEncryptingKey)
  THEN Result([c EXCEPT !.m = a.m, !.n = a.n], Threw("Could not decrypt public key ring"))
  ELSE IF a.encryptedPkr.pt.json # "array" \/ Len(a.encryptedPkr.pt.ring) # a.n
  THEN Result([c EXCEPT !.m = a.m, !.n = a.n], Threw("Invalid public key ring"))
  ELSE IF ~CheckTxProposal(AirGappedInstall(c, a), a.txp)
  THEN Result(AirGappedInstall(c, a), Threw("Fake transaction proposal"))
  ELSE Result(AirGappedInstall(c, a), Returned(SignTxp(a.txp, c.xPrivKey)))

\* [cred, res] of signTxProposalFromAirGapped(txp, encryptedPkr, m, n) on c
SignTxProposalFromAirGappedResult(c, a) ==
  IF ~c.present THEN Result(c, Threw("checkState"))
  ELSE IF ~CredCanSign(c)
  THEN Result(c, Threw("You do not have the required keys to sign transactions"))
  ELSE IF ~CanDecrypt(a.encryptedPkr, c.personalEncryptingKey)
  THEN Result(c, Threw("Could not decrypt public key ring"))
  ELSE IF a.encryptedPkr.pt.json # "array" \/ Len(a.encryptedPkr.pt.ring) # a.n
  THEN Result(c, Threw("Invalid public key ring"))
  ELSE IF ~CheckTxProposal(AirGappedInstall(c, a), a.txp)
  THEN Result(AirGappedInstall(c, a), Threw("Fake transaction proposal"))
  ELSE Result(AirGappedInstall(c, a), Returned(SignTxp(a.txp, c.xPrivKey)))

signTxProposalFromAirGapped ==
  \E a \in AirGappedArgs :
    LET out == SignTxProposalFromAirGappedResult(cred, a)
    IN Local("signTxProposalFromAirGapped", a, out.cred, out.res)

(* --------------------- the other wallet operations --------------------- *)
\* the callback most operations hand to _doRequest:
\* if (err) return cb(err); return cb(null, body)
PassOn(r) == IF RequestError(r) # "none" THEN CbErr(RequestError(r)) ELSE CbOk(r.body)

Empty == [kind |-> "empty"]

\* sendTxProposal(opts, cb); numeric: whether opts.amount is a number
SendOpts ==
  [toAddress : {"addr"}, amount : {1}, message : {"", "hi"}, numeric : BOOL]
SendArgs(c, opts) ==
  LET message == ApiEncryptMessage(opts.message, c.sharedEncryptingKey)
  IN [kind |-> "txp", toAddress |-> opts.toAddress, amount |-> opts.amount,
      message |-> message,
      proposalSignature |->
        SignMessage(GetProposalHash(opts.toAddress, opts.amount, message),
                    c.requestPrivKey)]

sendTxProposal ==
  \E opts \in SendOpts :
    \/ /\ ~Complete(cred)
       /\ Local("sendTxProposal", opts, cred, Threw("checkState"))
    \/ /\ Complete(cred) /\ ~opts.numeric
       /\ Local("sendTxProposal", opts, cred, Threw("shouldBeNumber"))
    \/ /\ Complete(cred) /\ opts.numeric
       /\ \E r \in FailedResponses \cup TxpBodies :
            Remote("sendTxProposal", opts, cred,
                   <<DoPostRequest(cred, Url("/v1/txproposals/", 0, ""), SendArgs(cred, opts))>>,
                   <<r>>, PassOn(r))

\* mutant: getBalance asks only for credentials, as _doRequest does
getBalance_AnyCredentials ==
  \/ /\ ~cred.present
     /\ Local("getBalance", NoArg, cred, Threw("checkState"))
  \/ /\ cred.present
     /\ \E r \in FailedResponses \cup {Ok200([kind |-> "balance", totalAmount |-> 1])} :
          Remote("getBalance", NoArg, cred,
                 <<DoGetRequest(cred, Url("/v1/balance/", 0, ""))>>, <<r>>, PassOn(r))

getBalance ==
  \/ /\ ~Complete(cred)
     /\ Local("getBalance", NoArg, cred, Threw("checkState"))
  \/ /\ Complete(cred)
     /\ \E r \in FailedResponses \cup {Ok200([kind |-> "balance", totalAmount |-> 1])} :
          Remote("getBalance", NoArg, cred,
                 <<DoGetRequest(cred, Url("/v1/balance/", 0, ""))>>, <<r>>, PassOn(r))

\* rejectTxProposal(txp, reason, cb)
RejectArgs(c, reason) ==
  LET encrypted == ApiEncryptMessage(reason, c.sharedEncryptingKey)
  IN [kind |-> "rejection", reason |-> IF Missing(encrypted) THEN Plain("") ELSE encrypted]

rejectTxProposal ==
  \E txp \in CallerTxps(cred), reason \in {"", "no"} :
    LET a == [txp |-> txp, reason |-> reason]
    IN \/ /\ ~Complete(cred)
          /\ Local("rejectTxProposal", a, cred, Threw("checkState"))
       \/ /\ Complete(cred)
          /\ \E r \in FailedResponses \cup TxpBodies :
               Remote("rejectTxProposal", a, cred,
                      <<DoPostRequest(cred, Url("/v1/txproposals/", txp.id, "/rejections/"),
                                      RejectArgs(cred, reason))>>,
                      <<r>>, PassOn(r))

broadcastTxProposal ==
  \E txp \in CallerTxps(cred) :
    \/ /\ ~Complete(cred)
       /\ Local("broadcastTxProposal", [txp |-> txp], cred, Threw("checkState"))
    \/ /\ Complete(cred)
       /\ \E r \in FailedResponses \cup TxpBodies :
            Remote("broadcastTxProposal", [txp |-> txp], cred,
                   <<DoPostRequest(cred, Url("/v1/txproposals/", txp.id, "/broadcast/"), Empty)>>,
                   <<r>>, PassOn(r))

removeTxProposal ==
  \E txp \in CallerTxps(cred) :
    \/ /\ ~Complete(cred)
       /\ Local("removeTxProposal", [txp |-> txp], cred, Threw("checkState"))
    \/ /\ Complete(cred)
       /\ \E r \in FailedResponses \cup {Ok200(Empty)} :
            Remote("removeTxProposal", [txp |-> txp], cred,
                   <<DoDeleteRequest(cred, Url("/v1/txproposals/", txp.id, ""))>>, <<r>>,
                   IF RequestError(r) # "none" THEN CbErr(RequestError(r)) ELSE CbOk(NoVal))

\* getTxHistory(opts, cb): the transactions come back with their text decrypted
HistoryTxs == {WireTxp(1, FALSE, msg) : msg \in WireMessages}
GetTxHistoryCallback(c, r) ==
  IF RequestError(r) # "none" THEN CbErr(RequestError(r))
  ELSE CbOk([kind |-> "list", txps |-> ProcessTxps(r.body.list, c.sharedEncryptingKey)])

getTxHistory ==
  \/ /\ ~Complete(cred)
     /\ Local("getTxHistory", NoArg, cred, Threw("checkState"))
  \/ /\ Complete(cred)
     /\ \E r \in FailedResponses \cup
                 {Ok200(ListBody(l)) : l \in SeqsUpTo(HistoryTxs, MaxBatch)} :
          Remote("getTxHistory", NoArg, cred,
                 <<DoGetRequest(cred, Url("/v1/txhistory/", 0, ""))>>, <<r>>,
                 GetTxHistoryCallback(cred, r))

\* getStatus(cb): the wallet, with the invitation secret while it is pending,
\* and the pending proposals with their text decrypted (left alone when the
\* answer holds none)
StatusBody(wallet, hasTxps, txps) ==
  [kind |-> "status", wallet |-> wallet, hasTxps |-> hasTxps, pendingTxps |-> txps]
StatusTxps == HistoryTxs \cup {WireTxp(1, FALSE, NullMsg)}
StatusBodies ==
  {StatusBody(ServerWallet(1, <<1, 1>>, st, <<>>), TRUE, l) :
     st \in {"pending", "complete"}, l \in SeqsUpTo(StatusTxps, MaxBatch)}
    \cup {StatusBody(ServerWallet(1, <<1, 1>>, "complete", <<>>), FALSE, <<>>)}
GetStatusCallback(c, r) ==
  IF RequestError(r) # "none" THEN CbErr(RequestError(r))
  ELSE CbOk([kind |-> "status", wallet |-> r.body.wallet,
             secret |-> IF r.body.wallet.status = "pending"
                        THEN <<ToSecret(c.walletId, c.walletPrivKey, c.network)>>
                        ELSE <<>>,
             hasTxps |-> r.body.hasTxps,
             pendingTxps |-> IF r.body.hasTxps
                             THEN ProcessTxps(r.body.pendingTxps, c.sharedEncryptingKey)
                             ELSE r.body.pendingTxps])

getStatus ==
  \/ /\ ~cred.present
     /\ Local("getStatus", NoArg, cred, Threw("checkState"))
  \/ /\ cred.present
     /\ \E r \in FailedResponses \cup {Ok200(b) : b \in StatusBodies} :
          Remote("getStatus", NoArg, cred,
                 <<DoGetRequest(cred, Url("/v1/wallets/", 0, ""))>>, <<r>>,
                 GetStatusCallback(cred, r))

(* ---------------------------- specifications --------------------------- *)
\* the life of a credential set: seeding, serialization, the wallet
\* operations and the air-gapped signer
Next ==
  \/ seedFromRandom
  \/ seedFromExtendedPrivateKey
  \/ export
  \/ import
  \/ toString
  \/ fromString
  \/ openWallet
  \/ createWallet
  \/ joinWallet
  \/ recreateWallet
  \/ recreateJoinAnswered
  \/ signTxProposalFromAirGapped

Spec == Init /\ [][Next]_vars

\* Credential sets the client reaches by joining a wallet, opening it and
\* importing a no-sign export, built with the handlers above.
SeededCred == CredentialsFromExtendedPrivateKey(1)
JoinedCred(mn) ==
  JoinWalletCallback(SeededCred, ToSecret(1, 1, "livenet"), "alice",
                     Ok200(ServerWallet(1, mn, "pending", <<>>))).cred
GenuineCopayer(k) ==
  [id |-> XPubToCopayerId(XPubOf(k)), name |-> "alice", xPubKey |-> XPubOf(k),
   xPubKeySignature |-> SignMessage(XPubOf(k), 1)]
OpenedCred ==
  OpenWalletCallback(JoinedCred(<<2, 2>>),
    Ok200(ServerWallet(1, <<2, 2>>, "complete", <<GenuineCopayer(1), GenuineCopayer(2)>>))).cred
NoSignCred ==
  ImportResult(NoCred,
               ExportString(OpenedCred, [compressed |-> FALSE, password |-> "", noSign |-> TRUE]),
               [compressed |-> FALSE, password |-> ""]).cred
ProposalCreds == {NoCred, JoinedCred(<<2, 2>>), JoinedCred(<<1, 1>>), OpenedCred}
SigningCreds == ProposalCreds \cup {NoSignCred}

StartFrom(creds) ==
  /\ cred \in creds
  /\ op = "new"
  /\ arg = NoArg
  /\ reqs = <<>>
  /\ resp = <<>>
  /\ res = Returned(NoVal)
  /\ pending = {}
  /\ accepted = {}
  /\ cbCount = 0

InitProposals == StartFrom(ProposalCreds)
InitSigning == StartFrom(SigningCreds)

\* the operations that fetch proposals and addresses and verify them
NextProposals ==
  \/ getTxProposals
  \/ createAddress
  \/ getMainAddresses

SpecProposals == InitProposals /\ [][NextProposals]_vars

\* the operations that sign a proposal
NextSigning ==
  \/ getSignatures
  \/ signTxProposal
  \/ signTxProposalFromAirGapped

SpecSigning == InitSigning /\ [][NextSigning]_vars

\* creating and joining wallets, on a client without credentials or seeded
WalletCreds == {NoCred} \cup {CredentialsFromExtendedPrivateKey(k) : k \in Seeds}
InitWallets == StartFrom(WalletCreds)

NextWallets ==
  \/ createWallet
  \/ joinWallet

SpecWallets == InitWallets /\ [][NextWallets]_vars

\* the operations that need a complete wallet, on credentials of every state:
\* none, seeded, bound to a pending wallet, complete
OperationCreds == {NoCred, SeededCred, JoinedCred(<<2, 2>>), JoinedCred(<<1, 1>>)}
InitOperations == StartFrom(OperationCreds)

NextOperations ==
  \/ sendTxProposal
  \/ createAddress
  \/ getMainAddresses
  \/ getBalance
  \/ getTxProposals
  \/ getSignatures
  \/ signTxProposal
  \/ rejectTxProposal
  \/ broadcastTxProposal
  \/ removeTxProposal
  \/ getTxHistory

SpecOperations == InitOperations /\ [][NextOperations]_vars

\* recreateWallet, from credentials whose ring was installed in any order
\* before the wallet was joined (the own key is added where it is missing),
\* from credentials opened without the wallet's key, and from incomplete ones
RecreateCred(ring) ==
  JoinWalletCallback(AddPublicKeyRing(SeededCred, ring), ToSecret(1, 1, "livenet"), "alice",
    Ok200(ServerWallet(1, <<1, Len(AppendNew(ring, <<SeededCred.xPubKey>>))>>,
                       "pending", <<>>))).cred
WatchCred ==
  OpenWalletCallback(SeededCred,
    Ok200(ServerWallet(1, <<1, 1>>, "complete", <<GenuineCopayer(1)>>))).cred
RecreateCreds ==
  {NoCred, JoinedCred(<<2, 2>>), WatchCred}
    \cup {RecreateCred(ring) :
            ring \in {r \in SeqsUpTo(XPubs \cup {ServerXPub}, MaxN) :
                        Cardinality(ToSet(r)) = Len(r)}}
InitRecreate == StartFrom(RecreateCreds)
NextRecreate ==
  \/ recreateWallet
  \/ recreateJoinAnswered
SpecRecreate == InitRecreate /\ [][NextRecreate]_vars

\* the operations that fetch proposals and decrypt their text
FetchCreds == {NoCred, SeededCred, OpenedCred}
InitFetch == StartFrom(FetchCreds)
NextFetch ==
  \/ getStatus
  \/ getTxProposals
  \/ getTxHistory
SpecFetch == InitFetch /\ [][NextFetch]_vars

\* _doRequest, from each kind of credentials
InitTransport == StartFrom(OperationCreds)
NextTransport == doRequest
SpecTransport == InitTransport /\ [][NextTransport]_vars

(* ------------------------------- claims -------------------------------- *)
Answered200 == Len(resp) >= 1 /\ RequestError(resp[1]) = "none"

\* the proposals of the answered batch, as _processTxps leaves them
BatchTxps == ProcessTxps(resp[1].body.list, cred.sharedEncryptingKey)
BadTxps == {i \in 1..Len(BatchTxps) : ~CheckTxProposal(cred, BatchTxps[i])}

\* C1: getTxProposals with verification enabled is fail-closed: when at least
\* one proposal of the answered batch fails checkTxProposal, the callback gets
\* a ServerCompromisedError and no proposal, in normal and in air-gapped mode.
C1_GetTxProposalsFailClosed ==
  (op = "getTxProposals" /\ Answered200 /\ ~arg.doNotVerify /\ BadTxps # {})
    => res = CbErr("ServerCompromisedError")

\* C1 witness: a batch of two proposals of which exactly one is tampered with,
\* fetched for the air-gapped signer, rejected as a whole
C1_Witness ==
  /\ op = "getTxProposals" /\ Answered200 /\ ~arg.doNotVerify /\ arg.forAirGapped
  /\ Len(BatchTxps) = 2 /\ BadTxps = {2}
  /\ res.err = "ServerCompromisedError"

SigningOps == {"getSignatures", "signTxProposal", "signTxProposalFromAirGapped"}
IsSignaturesPost(rq) == rq.url.tail = "/signatures/"
ProducedSignature ==
  \/ res.val.kind = "signatures"
  \/ \E i \in 1..Len(reqs) : IsSignaturesPost(reqs[i])

\* C2: unverified data is never signed: getSignatures, signTxProposal and
\* signTxProposalFromAirGapped return or post signatures only for a proposal
\* that passes checkTxProposal against the current credentials; when it does
\* not, the call ends in an error, returns nothing and sends nothing.
C2_NeverSignUnverified ==
  op \in SigningOps =>
    /\ ProducedSignature => CheckTxProposal(cred, arg.txp)
    /\ ~CheckTxProposal(cred, arg.txp) =>
         res.err # "none" /\ res.val = NoVal /\ reqs = <<>>

\* C2 witness: signatures made elsewhere, posted by a client that cannot sign,
\* for a proposal that it has verified
C2_Witness ==
  /\ op = "signTxProposal" /\ ~canSign /\ HasSignatures(arg.txp)
  /\ Len(reqs) = 1 /\ IsSignaturesPost(reqs[1])
  /\ CheckTxProposal(cred, arg.txp)

BadAddresses(l) == {i \in 1..Len(l) : ~CheckAddress(cred, l[i])}

\* C3: address verification is fail-closed: createAddress returns an address
\* only if checkAddress holds for it; getMainAddresses without doNotVerify
\* returns the list only if checkAddress holds for every address; otherwise the
\* callback gets a ServerCompromisedError and no address.  With doNotVerify
\* the list is passed on unchecked.
C3_AddressesFailClosed ==
  /\ (op = "createAddress" /\ Answered200) =>
       IF CheckAddress(cred, resp[1].body) THEN res = CbOk(resp[1].body)
       ELSE res = CbErr("ServerCompromisedError")
  /\ (op = "getMainAddresses" /\ Answered200) =>
       IF arg.doNotVerify \/ BadAddresses(resp[1].body.list) = {}
       THEN res = CbOk(resp[1].body)
       ELSE res = CbErr("ServerCompromisedError")

\* C3 witness: a list of two addresses, the second one fake, rejected
C3_Witness ==
  /\ op = "getMainAddresses" /\ Answered200 /\ ~arg.doNotVerify
  /\ Len(resp[1].body.list) = 2 /\ BadAddresses(resp[1].body.list) = {2}
  /\ res = CbErr("ServerCompromisedError")

(* ------------------------------ openWallet ----------------------------- *)
\* the first request of the step being taken was answered with 200
Answered200Next == Len(resp') >= 1 /\ RequestError(resp'[1]) = "none"

\* C4: openWallet changes the credentials only when the server answered with
\* status "complete" and, where the wallet's private key is held, checkCopayers
\* accepted the server's copayers.  A status other than "complete" fails the
\* call, a failed checkCopayers fails it with a ServerCompromisedError, a failed
\* request fails it with the request's error, and in these three cases the
\* credentials are exactly those before the call.
C4_OpenWalletFailClosed ==
  [][op' = "openWallet" =>
       LET wallet == resp'[1].body
           complete == Answered200Next /\ wallet.status = "complete"
           verified == cred.walletPrivKey # 0 => CheckCopayers(cred, wallet.copayers)
       IN /\ cred' # cred => complete /\ verified
          /\ (Answered200Next /\ ~complete) =>
               res' = CbErr("Wallet Incomplete") /\ cred' = cred
          /\ (complete /\ ~verified) =>
               res' = CbErr("ServerCompromisedError") /\ cred' = cred
          /\ (Len(resp') = 1 /\ ~Answered200Next) =>
               res' = CbErr(RequestError(resp'[1])) /\ cred' = cred]_vars

\* C4 witness: a complete wallet whose copayers fail the check, rejected by a
\* client that holds the wallet's private key
C4_Witness ==
  /\ op = "openWallet" /\ Len(resp) = 1 /\ RequestError(resp[1]) = "none"
  /\ resp[1].body.status = "complete" /\ Len(resp[1].body.copayers) > 0
  /\ cred.walletPrivKey # 0 /\ ~CheckCopayers(cred, resp[1].body.copayers)
  /\ res = CbErr("ServerCompromisedError")

(* ----------------------------- recreateWallet -------------------------- *)
\* a join of the running recreateWallet call has failed and joins of other
\* ring entries are still unanswered
JoinFailed ==
  /\ op = "recreateWallet" /\ pending # {}
  /\ cbCount = 1 /\ res.how = "cb" /\ res.err # "none"

\* C5: recreateWallet is fail-fast.  The operation never changes the
\* credentials and calls back at most once; once a join has failed the
\* callback has been called with that failure and stays so, no further join
\* request is sent, and the server accepts no join of another ring entry.
C5_RecreateFailFast ==
  [][/\ op' = "recreateWallet" => cred' = cred /\ cbCount' <= 1
     /\ JoinFailed => /\ res' = res /\ cbCount' = cbCount
                      /\ reqs' = reqs
                      /\ accepted' = accepted]_vars

(* ------------------------------ wallet state --------------------------- *)
\* the client-observed state: 0 NoCredentials, 1 Seeded, 2 WalletInfoKnown,
\* 3 Complete
Rank(c) ==
  IF ~c.present THEN 0
  ELSE IF CredIsComplete(c) THEN 3
  ELSE IF HasWalletInfo(c) THEN 2
  ELSE 1

\* the step moves the state forward or leaves it, and keeps isComplete() and
\* canSign() true once they are
Monotonic ==
  /\ Rank(cred) <= Rank(cred')
  /\ isComplete => isComplete'
  /\ canSign => canSign'

Orchestrators ==
  {"createWallet", "joinWallet", "openWallet", "recreateWallet",
   "signTxProposalFromAirGapped"}

WalletFields(c) ==
  <<c.walletId, c.walletName, c.m, c.n, c.walletPrivKey, c.copayerName, c.publicKeyRing>>

\* the step is one of an orchestrator operation and changes a wallet field
WalletFieldsChange ==
  op' \in Orchestrators /\ WalletFields(cred') # WalletFields(cred)

\* C7 as stated: an orchestrator operation changes the wallet fields only
\* after a request of that operation was answered with success, and an
\* operation that ends in an error has not changed them.
C7_WalletFieldsAfterRoundTrip ==
  [][WalletFieldsChange => Answered200Next /\ res'.err = "none"]_vars

\* C7 amended: createWallet changes the wallet fields only after the
\* registration was answered with success (the join may then still fail);
\* joinWallet only when the join succeeded and the call ends without error;
\* openWallet only on a wallet reported complete whose copayers passed the
\* check where the wallet's private key is held; recreateWallet never;
\* signTxProposalFromAirGapped without any request, once the transported ring
\* was decrypted and is an array of length n (the call may then still fail).
C7_WalletFieldsPerOperation ==
  [][WalletFieldsChange =>
       CASE op' = "createWallet" ->
              Len(resp') = 2 /\ Answered200Next
         [] op' = "joinWallet" ->
              Len(resp') = 1 /\ Answered200Next /\ res'.err = "none"
         [] op' = "openWallet" ->
              /\ Len(resp') = 1 /\ Answered200Next
              /\ resp'[1].body.status = "complete"
              /\ cred.walletPrivKey # 0 => CheckCopayers(cred, resp'[1].body.copayers)
         [] op' = "recreateWallet" -> FALSE
         [] op' = "signTxProposalFromAirGapped" ->
              /\ reqs' = <<>>
              /\ CanDecrypt(arg'.encryptedPkr, cred.personalEncryptingKey)
              /\ arg'.encryptedPkr.pt.json = "array"
              /\ Len(arg'.encryptedPkr.pt.ring) = arg'.n]_vars

\* C7 witness: createWallet has bound the credentials to the wallet it
\* registered and ends with the error of the join
C7_Witness ==
  /\ op = "createWallet" /\ Len(resp) = 2
  /\ RequestError(resp[1]) = "none" /\ RequestError(resp[2]) # "none"
  /\ res = CbErr(RequestError(resp[2]))
  /\ cred.walletId = resp[1].body.walletId /\ cred.n = arg.n

(* ---------------------------- export / import -------------------------- *)
\* C8: import fails atomically.  A password-protected string and another
\* password fail with 'Incorrect password', a string that is no export fails
\* with 'Error importing from source', and a failing import leaves the
\* credentials as they were.
C8_ImportFailsAtomically ==
  [][op' = "import" =>
       LET str == arg'.str
           opts == arg'.opts
       IN /\ (str.enc # "" /\ opts.password # "" /\ opts.password # str.enc) =>
               res' = Threw("Incorrect password")
          /\ (str = Garbage /\ opts.password = "") =>
               res' = Threw("Error importing from source")
          /\ res'.err # "none" => cred' = cred]_vars

\* the step imports the string the export before it returned, with the
\* options of that export
RoundTrip ==
  /\ op = "export" /\ res.err = "none"
  /\ op' = "import" /\ arg'.str = res.val
  /\ arg'.opts.compressed = arg.compressed /\ arg'.opts.password = arg.password

\* C9: export and import are inverses.  export leaves the credentials as they
\* are, and importing what it returned, with the same options, gives
\* credentials equal to the exported ones in every field, but for the signing
\* private key, which is absent exactly when noSign was set.
C9_ExportImportInverse ==
  [][/\ op' = "export" => cred' = cred
     /\ RoundTrip =>
          /\ res'.err = "none"
          /\ cred' = IF arg.noSign THEN [cred EXCEPT !.xPrivKey = 0] ELSE cred]_vars

(* ---------------------- signTxProposalFromAirGapped -------------------- *)
\* C10: signTxProposalFromAirGapped rejects a bad ring before it touches the
\* credentials.  On credentials that can sign, a ring that does not decrypt
\* under the personal encrypting key fails with 'Could not decrypt public key
\* ring' and a decrypted value that is no array of length n fails with 'Invalid
\* public key ring'; either way the call throws, produces no signature and
\* leaves the credentials (m, n and the ring among them) as they were.  No
\* execution of the operation sends a request.
C10_AirGappedRejectsBadRing ==
  [][op' = "signTxProposalFromAirGapped" =>
       LET pkr == arg'.encryptedPkr
           undecryptable == ~CanDecrypt(pkr, cred.personalEncryptingKey)
           invalid == /\ ~undecryptable
                      /\ pkr.pt.json # "array" \/ Len(pkr.pt.ring) # arg'.n
       IN /\ reqs' = <<>> /\ resp' = <<>>
          /\ (undecryptable \/ invalid) => res'.how = "throw" /\ cred' = cred
          /\ (canSign /\ undecryptable) =>
               res' = Threw("Could not decrypt public key ring")
          /\ (canSign /\ invalid) => res' = Threw("Invalid public key ring")]_vars

\* C10 witness: a ring of two keys, decrypted, offered with n = 1 to
\* credentials of a 2-of-2 wallet, rejected
C10_Witness ==
  /\ op = "signTxProposalFromAirGapped" /\ canSign
  /\ CanDecrypt(arg.encryptedPkr, cred.personalEncryptingKey)
  /\ Len(arg.encryptedPkr.pt.ring) = 2 /\ arg.n = 1 /\ cred.n = 2
  /\ res = Threw("Invalid public key ring")

(* ----------------------- createWallet / joinWallet --------------------- *)
CreateSucceeded ==
  op = "createWallet" /\ Len(resp) = 2 /\ res.how = "cb" /\ res.err = "none"

C12_CreateWalletNetwork ==
  [][op' = "createWallet" =>
       /\ arg'.network \notin Networks =>
            /\ res' = CbErr("Invalid network")
            /\ reqs' = <<>> /\ cred' = cred
       /\ (arg'.network \in Networks /\ cred.present /\ cred.network # arg'.network) =>
            /\ res' = CbErr("Existing keys were created for a different network")
            /\ reqs' = <<>> /\ cred' = cred]_vars

\* C12 witness: keys of the live network, a wallet asked for on the test network
C12_Witness ==
  /\ op = "createWallet" /\ cred.present
  /\ cred.network = "livenet" /\ arg.network = "testnet"
  /\ res = CbErr("Existing keys were created for a different network")
  /\ reqs = <<>>

\* the wallet binding of credentials: the wallet fields and the key derived
\* from the wallet's private key
WalletInfo(c) == <<WalletFields(c), c.sharedEncryptingKey>>

\* C13: joinWallet with a secret that does not decode fails with the decode
\* error, seeds nothing and sends nothing.  With a secret that decodes it
\* sends one join, for the secret's wallet and the client's own key, signed
\* with the wallet's private key of the secret; a join that succeeds stores
\* the wallet info with that same key, a join that fails stores no wallet info.
C13_JoinWalletSecret ==
  [][op' = "joinWallet" =>
       LET secret == arg'.secret
       IN /\ ~FromSecretOk(secret) =>
               /\ res' = CbErr("Invalid secret")
               /\ reqs' = <<>> /\ cred' = cred
          /\ FromSecretOk(secret) =>
               /\ Len(reqs') = 1 /\ Len(resp') = 1
               /\ reqs'[1].url = Url("/v1/wallets/", secret.walletId, "/copayers")
               /\ reqs'[1].body.xPubKey = cred'.xPubKey
               /\ reqs'[1].body.xPubKeySignature =
                    SignMessage(cred'.xPubKey, secret.walletPrivKey)
               /\ IF RequestError(resp'[1]) = "none"
                  THEN /\ res' = CbOk(resp'[1].body)
                       /\ cred'.walletId = resp'[1].body.id
                       /\ cred'.walletPrivKey = secret.walletPrivKey
                       /\ cred'.sharedEncryptingKey =
                            PrivateKeyToAESKey(secret.walletPrivKey)
                  ELSE /\ res' = CbErr(RequestError(resp'[1]))
                       /\ WalletInfo(cred') = WalletInfo(cred)]_vars

\* C13 witness: a client without credentials has joined the wallet of a secret
C13_Witness ==
  /\ op = "joinWallet" /\ FromSecretOk(arg.secret) /\ res.how = "cb" /\ res.err = "none"
  /\ cred.walletPrivKey = arg.secret.walletPrivKey /\ cred.walletPrivKey # 0
  /\ reqs[1].body.xPubKeySignature = SignMessage(cred.xPubKey, cred.walletPrivKey)

(* ------------------------------- signing ------------------------------- *)
NoKeys == "You do not have the required keys to sign transactions"

\* C14 as stated: with credentials that cannot sign, getSignatures and
\* signTxProposal end in an error for every proposal, and no request is sent.
C14_SigningRequiresKeys ==
  (op \in {"getSignatures", "signTxProposal"} /\ ~canSign) =>
    res.err # "none" /\ reqs = <<>>

\* C14 amended: with credentials that cannot sign, getSignatures ends in an
\* error for every proposal, and signTxProposal ends in an error, sending no
\* request, for every proposal that carries no signatures.  A proposal that
\* carries signatures is verified like any other and, when it passes, its
\* signatures are posted as they came; nothing is signed by the client.
C14_SigningRequiresKeysOrSignatures ==
  (op \in {"getSignatures", "signTxProposal"} /\ ~canSign) =>
    IF op = "signTxProposal" /\ HasSignatures(arg.txp)
    THEN IF Complete(cred) /\ CheckTxProposal(cred, arg.txp)
         THEN /\ Len(reqs) = 1
              /\ reqs[1].body = [kind |-> "signatures", signatures |-> arg.txp.signatures]
         ELSE res.err # "none" /\ reqs = <<>>
    ELSE /\ res.err # "none" /\ reqs = <<>>
         /\ Complete(cred) => res = CbErr(NoKeys)

\* C14 witness: credentials imported without the signing key relay the
\* signatures that came with a genuine proposal
C14_Witness ==
  /\ op = "signTxProposal" /\ Complete(cred) /\ ~canSign
  /\ HasSignatures(arg.txp) /\ CheckTxProposal(cred, arg.txp)
  /\ Len(reqs) = 1 /\ res.how = "cb"

(* ------------------------- complete credentials ------------------------ *)
NeedComplete ==
  {"sendTxProposal", "createAddress", "getMainAddresses", "getBalance",
   "getTxProposals", "getSignatures", "signTxProposal", "rejectTxProposal",
   "broadcastTxProposal", "removeTxProposal", "getTxHistory"}

\* C15: each of the eleven operations sends a request only when the
\* credentials are complete when it is called; called without credentials or
\* with incomplete ones it fails its precondition (checkState throws), no
\* request reaches the transport and the credentials stay as they are.
C15_RequestsNeedCompleteCredentials ==
  [][op' \in NeedComplete =>
       /\ reqs' # <<>> => Complete(cred)
       /\ ~Complete(cred) =>
            /\ res' = Threw("checkState")
            /\ reqs' = <<>> /\ resp' = <<>>
            /\ cred' = cred]_vars

\* C15 witness: removeTxProposal refused on credentials bound to a wallet
\* whose ring is not complete yet
C15_Witness ==
  /\ op = "removeTxProposal" /\ cred.present /\ HasWalletInfo(cred)
  /\ Len(cred.publicKeyRing) < cred.n
  /\ res = Threw("checkState") /\ reqs = <<>>

(* --------------------------- request signatures ------------------------ *)
\* request i of the step being taken is signed with the request key of the
\* credentials, over its own method, url and body
SignedNext(i) ==
  /\ cred'.requestPrivKey # 0
  /\ reqs'[i].signature =
       SignRequest(reqs'[i].method, reqs'[i].url, reqs'[i].body, cred'.requestPrivKey)

\* the step is a createWallet on a client without credentials that sends
\* the registration
Bootstrap == op' = "createWallet" /\ ~cred.present /\ reqs' # <<>>

\* C16 as stated: every request sent while the credentials hold a request
\* private key is signed with it over method, url and the body sent, and the
\* registration that createWallet sends on a client without credentials
\* carries no signature.
C16_RequestsSignedBootstrapUnsigned ==
  [][/\ \A i \in 1..Len(reqs') : Bootstrap \/ SignedNext(i)
     /\ Bootstrap => reqs'[1].signature = NoSig]_vars

\* C16 amended: every request handed to the transport while the credentials
\* hold a request private key is signed with that key over method, url and
\* the body sent in that same request, and carries the credentials' copayer
\* id.  The registration that createWallet sends on a client without
\* credentials is signed like any other: the credentials are seeded, request
\* key included, before it is sent.
C16_RequestsSigned ==
  [][/\ \A i \in 1..Len(reqs') :
          cred'.requestPrivKey # 0 =>
            SignedNext(i) /\ reqs'[i].identity = cred'.copayerId
     /\ Bootstrap => SignedNext(1) /\ reqs'[1].signature # NoSig]_vars

\* C16 witness: createWallet has registered and joined a wallet with signed
\* requests of different bodies
C16_Witness ==
  /\ op = "createWallet" /\ Len(reqs) = 2
  /\ reqs[1].signature = SignRequest("post", reqs[1].url, reqs[1].body, cred.requestPrivKey)
  /\ reqs[2].signature = SignRequest("post", reqs[2].url, reqs[2].body, cred.requestPrivKey)
  /\ reqs[1].body # reqs[2].body /\ cred.requestPrivKey # 0

\* getTxProposals has handed an air-gapped bundle to its callback
GotBundle ==
  /\ op = "getTxProposals" /\ arg.forAirGapped
  /\ res.how = "cb" /\ res.err = "none"

\* the bundle's ring, m and n: the ring under the personal encrypting key,
\* m and n those of the credentials
BundleRing ==
  /\ res.val.kind = "bundle"
  /\ res.val.encryptedPkr.kind = "cipher"
  /\ res.val.encryptedPkr.key = cred.personalEncryptingKey
  /\ res.val.encryptedPkr.pt = [json |-> "array", ring |-> cred.publicKeyRing]
  /\ res.val.m = cred.m /\ res.val.n = cred.n
  /\ Len(res.val.txps) = Len(resp[1].body.list)

\* an offline signer with the same personal key, fed the i-th proposal of the
\* bundle, gets past the ring checks and ends with the online ring, m and n
BundleRoundTrip(i) ==
  LET signer == CredentialsFromExtendedPrivateKey(cred.xPrivKey)
      out == SignTxProposalFromAirGappedResult(signer,
               [txp |-> res.val.txps[i], encryptedPkr |-> res.val.encryptedPkr,
                m |-> res.val.m, n |-> res.val.n])
  IN /\ signer.personalEncryptingKey = cred.personalEncryptingKey
     /\ out.res.err \notin {"Could not decrypt public key ring", "Invalid public key ring"}
     /\ out.cred.publicKeyRing = cred.publicKeyRing
     /\ out.cred.m = cred.m /\ out.cred.n = cred.n

\* C17: the bundle that getTxProposals returns in forAirGapped mode holds the
\* proposals still encrypted (message and action comments are the ciphertext
\* of the wire), the ring under the personal encrypting key, and m and n of
\* the credentials; signTxProposalFromAirGapped, fed that bundle with the same
\* personal key, decrypts the same ring.
C17_AirGappedBundleEncrypted ==
  GotBundle =>
    /\ BundleRing
    /\ \A i \in 1..Len(res.val.txps) :
         /\ res.val.txps[i].message = resp[1].body.list[i].message
         /\ res.val.txps[i].actions = resp[1].body.list[i].actions
         /\ BundleRoundTrip(i)

\* C17 amended: the proposals of the bundle are processed as in the plain
\* mode: message and action comments are decrypted with the shared key (the
\* placeholder where that fails), and the message of the wire is kept in
\* encryptedMessage; every other field is the wire's.  The ring is under the
\* personal encrypting key, m and n are the credentials', and the round trip
\* through signTxProposalFromAirGapped yields the same ring.
C17_AirGappedBundle ==
  GotBundle =>
    /\ BundleRing
    /\ \A i \in 1..Len(res.val.txps) :
         LET wire == resp[1].body.list[i]
             txp == res.val.txps[i]
         IN /\ txp.encryptedMessage = wire.message
            /\ txp.message = ApiDecryptMessage(wire.message, cred.sharedEncryptingKey)
            /\ txp.message.kind = "plain"
            /\ Len(txp.actions) = Len(wire.actions)
            /\ \A j \in 1..Len(txp.actions) :
                 txp.actions[j].comment =
                   ApiDecryptMessage(wire.actions[j].comment, cred.sharedEncryptingKey)
            /\ [txp EXCEPT !.message = wire.message, !.actions = wire.actions,
                           !.encryptedMessage = wire.encryptedMessage] = wire
            /\ BundleRoundTrip(i)

\* a bundle with a proposal whose message was encrypted on the wire and came
\* out decrypted, the wire message kept aside
C17_Witness ==
  /\ GotBundle /\ Len(res.val.txps) = 2
  /\ resp[1].body.list[1].message.kind = "cipher"
  /\ res.val.txps[1].message = Plain("hi")
  /\ res.val.txps[1].encryptedMessage = resp[1].body.list[1].message
  /\ Len(cred.publicKeyRing) = 2

\* the object a failed request's body stands for, and whether it has a code
BodyObject(body) == IF body.kind = "string" /\ body.json THEN body.parsed ELSE body
HasCode(body) == BodyObject(body).kind = "error" /\ BodyObject(body).code # ""

\* C18: for every request the callback runs exactly once, with an outcome
\* fixed by what the transport reported: a transport failure is passed on
\* unchanged, status 200 is a success carrying the body, and any other status
\* is an error, the structured {code, message} one when the body has a code
\* and the generic one with code 'ERROR' otherwise; never a success.
C18_CallbackOncePerRequest ==
  op = "_doRequest" /\ reqs # <<>> =>
    /\ cbCount = 1 /\ res.how = "cb"
    /\ resp[1].err # NoError => res.err = resp[1].err /\ res.val = NoVal
    /\ resp[1].err = NoError /\ resp[1].status = 200 =>
         res.err = NoError /\ res.val = resp[1].body
    /\ resp[1].err = NoError /\ resp[1].status # 200 =>
         /\ res.err # NoError /\ res.val = NoVal
         /\ IF HasCode(resp[1].body)
            THEN res.err = [kind |-> "ClientError",
                            code |-> BodyObject(resp[1].body).code,
                            message |-> BodyObject(resp[1].body).message]
            ELSE res.err.kind = "generic" /\ res.err.code = "ERROR"

\* a 201 whose body is a JSON string with a code came back as that
\* structured error
C18_Witness ==
  /\ op = "_doRequest" /\ reqs # <<>> /\ cbCount = 1
  /\ resp[1].status = 201 /\ resp[1].body = JsonString(ErrorBody("WNOTFOUND"))
  /\ res.err = ClientError("WNOTFOUND", "message of WNOTFOUND")

\* the joins of the running recreateWallet call, in the order sent
RecreateSent == SubSeq(reqs, 2, Len(reqs))
\* the ring positions before j that hold another copayer's key
Others(j) == {k \in 1..(j - 1) : cred.publicKeyRing[k] # cred.xPubKey}

\* C19: once the registration of recreateWallet is answered with 200, one
\* join per ring entry has been sent, in ring order, to the wallet id that
\* the registration returned, each with the entry's key signed by the
\* wallet's key of the credentials; the own key goes under the stored
\* copayer name and the k-th other key of the ring under
\* 'recovered copayer #k', k = 1, 2, ... without gaps or repeats.
C19_RecreateJoins ==
  op = "recreateWallet" /\ Len(resp) >= 1 /\ RequestError(resp[1]) = "none" =>
    /\ Len(RecreateSent) = Len(cred.publicKeyRing)
    /\ \A j \in 1..Len(RecreateSent) :
         LET rq == RecreateSent[j]
             xpub == cred.publicKeyRing[j]
         IN /\ rq.method = "post"
            /\ rq.url = Url("/v1/wallets/", resp[1].body.walletId, "/copayers")
            /\ rq.body.walletId = resp[1].body.walletId
            /\ rq.body.xPubKey = xpub
            /\ rq.body.xPubKeySignature = SignMessage(xpub, cred.walletPrivKey)
            /\ VerifyMessage(xpub, rq.body.xPubKeySignature, WalletPubOf(cred.walletPrivKey))
            /\ rq.body.name = IF xpub = cred.xPubKey THEN cred.copayerName
                              ELSE RecoveredNames[Cardinality(Others(j)) + 1]
    /\ LET others == {j \in 1..Len(RecreateSent) : cred.publicKeyRing[j] # cred.xPubKey}
       IN {RecreateSent[j].body.name : j \in others} =
            {RecoveredNames[k] : k \in 1..Cardinality(others)}

\* a ring of three with the own key last: the joins went out as
\* #1, #2, alice
C19_Witness ==
  /\ op = "recreateWallet" /\ Len(reqs) = 4 /\ pending = {}
  /\ cred.publicKeyRing[3] = cred.xPubKey
  /\ reqs[2].body.name = "recovered copayer #1"
  /\ reqs[3].body.name = "recovered copayer #2"
  /\ reqs[4].body.name = "alice"

\* openWallet has called back with the flag f
OpenWalletReturned(f) ==
  op = "openWallet" /\ res = CbOk([kind |-> "flag", flag |-> f])

\* C20: the flag that openWallet calls back with reports a completion that
\* has just happened: it is true exactly when isComplete() was false before
\* the call and is true after it, and false, with no request sent, when the
\* credentials were complete already; so of two openWallet calls in a row on
\* the same client at most one returns true.
C20_OpenWalletFlagJustCompleted ==
  [][op' = "openWallet" /\ res'.how = "cb" /\ res'.err = "none" =>
       /\ res'.val.flag <=> (~Complete(cred) /\ Complete(cred'))
       /\ Complete(cred) => ~res'.val.flag /\ reqs' = <<>>
       /\ OpenWalletReturned(TRUE) => ~res'.val.flag]_vars

\* the proposals the server sent and those the callback received, for the
\* three operations that fetch proposals
FetchOps == {"getStatus", "getTxProposals", "getTxHistory"}
FetchedWire == IF op = "getStatus" THEN resp[1].body.pendingTxps ELSE resp[1].body.list
FetchedTxps == IF op = "getStatus" THEN res.val.pendingTxps ELSE res.val.txps
\* a text of the wire as the caller is to see it
Shown(text) ==
  IF text.kind \in {"null", "undefined"} THEN Plain("")
  ELSE IF text.kind = "cipher" /\ text.key = cred.sharedEncryptingKey /\ text.key # 0
  THEN Plain(text.pt)
  ELSE Plain("<ECANNOTDECRYPT>")

\* C21: a message or action comment that cannot be decrypted never aborts
\* getStatus, getTxProposals or getTxHistory.  An answered fetch fails only
\* when getTxProposals finds a proposal that does not verify; otherwise every
\* proposal of the answer is delivered, its message and action comments
\* decrypted, '<ECANNOTDECRYPT>' where decryption fails and the empty string
\* where the text is absent, with the message of the wire kept in
\* encryptedMessage.
C21_UndecryptableNeverAborts ==
  op \in FetchOps /\ Answered200 =>
    /\ res.how = "cb"
    /\ res.err # "none" =>
         op = "getTxProposals" /\ ~arg.doNotVerify /\ BadTxps # {}
         /\ res.err = "ServerCompromisedError"
    /\ res.err = "none" /\ (op = "getStatus" => res.val.hasTxps) =>
         /\ Len(FetchedTxps) = Len(FetchedWire)
         /\ \A i \in 1..Len(FetchedTxps) :
              /\ FetchedTxps[i].encryptedMessage = FetchedWire[i].message
              /\ FetchedTxps[i].message = Shown(FetchedWire[i].message)
              /\ Len(FetchedTxps[i].actions) = Len(FetchedWire[i].actions)
              /\ \A j \in 1..Len(FetchedTxps[i].actions) :
                   FetchedTxps[i].actions[j].comment =
                     Shown(FetchedWire[i].actions[j].comment)

\* a batch whose first message is under a foreign key and whose second
\* carries none: both delivered, the first with the placeholder
C21_Witness ==
  /\ op = "getTxProposals" /\ Answered200 /\ res.how = "cb" /\ res.err = "none"
  /\ ~arg.doNotVerify /\ Len(FetchedTxps) = 2
  /\ FetchedWire[1].message.kind = "cipher"
  /\ FetchedTxps[1].message = Plain("<ECANNOTDECRYPT>")
  /\ FetchedTxps[1].encryptedMessage = FetchedWire[1].message
  /\ FetchedTxps[1].actions[1].comment = Plain("<ECANNOTDECRYPT>")
  /\ FetchedTxps[2].message = Plain("")

\* C22: createWallet sends its requests in a fixed order and never again: at
\* most one registration and at most one join of the own key per call; the
\* join goes out only after the registration was answered with 200, to the
\* wallet id of that answer, signed with the wallet key made in this call
\* (the one whose public key was registered); a failed registration is
\* followed by no join and leaves the wallet fields as they were; no request
\* follows a failed one.
C22_CreateWalletSequence ==
  [][op' = "createWallet" =>
       /\ Len(reqs') <= 2 /\ Len(resp') = Len(reqs')
       /\ \A i \in 1..Len(resp') : RequestError(resp'[i]) # "none" => i = Len(reqs')
       /\ Len(reqs') >= 1 =>
            /\ reqs'[1].method = "post" /\ reqs'[1].url = Url("/v1/wallets/", 0, "")
            /\ reqs'[1].body.kind = "register"
            /\ IF RequestError(resp'[1]) # "none"
               THEN /\ Len(reqs') = 1
                    /\ res' = CbErr(RequestError(resp'[1]))
                    /\ WalletInfo(cred') = WalletInfo(cred)
               ELSE /\ Len(reqs') = 2
                    /\ reqs'[2].method = "post"
                    /\ reqs'[2].url =
                         Url("/v1/wallets/", resp'[1].body.walletId, "/copayers")
                    /\ reqs'[2].body.kind = "join"
                    /\ reqs'[2].body.walletId = resp'[1].body.walletId
                    /\ reqs'[2].body.xPubKey = cred'.xPubKey
                    /\ VerifyMessage(cred'.xPubKey, reqs'[2].body.xPubKeySignature,
                                     reqs'[1].body.pubKey)
                    /\ reqs'[2].body.xPubKeySignature.key = cred'.walletPrivKey
                    /\ RequestError(resp'[2]) # "none" =>
                         res' = CbErr(RequestError(resp'[2]))]_vars

\* a client without credentials whose registration was refused: one request,
\* keys seeded, no wallet bound
C22_Witness ==
  /\ op = "createWallet" /\ Len(reqs) = 1 /\ Len(resp) = 1
  /\ RequestError(resp[1]) = "WNOTFOUND" /\ res = CbErr("WNOTFOUND")
  /\ cred.present /\ ~HasWalletInfo(cred)
====
